---- MODULE Spec2Model ----
(***************************************************************************)
(* Model of image-astc (src/src/lib.rs): decode_header and                 *)
(* load_from_memory.                                                       *)
(*                                                                         *)
(* A byte is a number in 0..255.  A 32-bit unit is modelled by its four    *)
(* bytes in memory order, so that bytemuck::cast_slice is the flattening   *)
(* of the unit sequence.  A u32 / usize value is modelled by its base-256  *)
(* digits, least significant first (TLC's integers are narrower than a     *)
(* u32, and the digits are what from_le_bytes is given).                   *)
(***************************************************************************)
EXTENDS Integers, Sequences, FiniteSets, TLC

VARIABLES op, data, dims, result

vars == <<op, data, dims, result>>

(***************************************************************************)
(* Bounds of the model.                                                    *)
(***************************************************************************)
\* most payload units that follow the eight header units of a container
MaxPayloadUnits == 15
\* most bytes that follow the 30 header bytes of a decode_header input
MaxTailBytes == 3

(***************************************************************************)
(* Program constants.                                                      *)
(***************************************************************************)
\* lib.rs:63  data.len() < 30
HeaderLen == 30
\* lib.rs:70  data[0..12]
SignatureLen == 12
\* lib.rs:72  the signature bytes A5 7C C7 5A 4F F4 5F 5F 4F F4 5F 5F
Signature == <<165, 124, 199, 90, 79, 244, 95, 95, 79, 244, 95, 95>>
\* lib.rs:82  u16::from_le_bytes takes [u8; 2]
U16Bytes == 2
\* lib.rs:85  u32::from_le_bytes takes [u8; 4]
U32Bytes == 4
\* lib.rs:113 usize of the build target (a 64-bit target)
UsizeBytes == 8
\* lib.rs:117 Rgba has four channels per pixel
ChannelCount == 4

(***************************************************************************)
(* Outcomes.  Both header errors are ImageError::Decoding values that      *)
(* differ in their message; the spec calls them TooShort and BadSignature. *)
(***************************************************************************)
TooShort ==
    [kind |-> "Err", variant |-> "Decoding",
     message |-> "Data is too short to contain an ASTC header"]

BadSignature ==
    [kind |-> "Err", variant |-> "Decoding",
     message |-> "Data does not contain an ASTC header"]

InsufficientMemory ==
    [kind |-> "Err", variant |-> "Limits", message |-> "InsufficientMemory"]

\* Result::unwrap on an Err value aborts the call
Panicked(msg) == [kind |-> "Panic", message |-> msg]

Ok(v) == [kind |-> "Ok", value |-> v]

(***************************************************************************)
(* Slices and arrays.                                                      *)
(***************************************************************************)
\* data[lo..hi] of Rust: the bytes at 0-based offsets lo .. hi-1
Slice(s, lo, hi) == SubSeq(s, lo + 1, hi)

\* <[u8; N]>::try_from(&[u8]): Ok only for a slice of exactly N bytes
TryIntoArray(s, n) ==
    IF Len(s) = n THEN [ok |-> TRUE, array |-> s]
                  ELSE [ok |-> FALSE, array |-> <<>>]

\* bytemuck::cast_slice::<u32, u8>: the units' bytes in memory order
RECURSIVE cast_slice(_)
cast_slice(units) ==
    IF units = <<>> THEN <<>> ELSE Head(units) \o cast_slice(Tail(units))

(***************************************************************************)
(* decode_header, lib.rs:60-91                                             *)
(***************************************************************************)
\* decode_header with its first two checks in the other order: the signature
\* is compared before the length is checked
decode_header_SignatureFirst(bytes) ==
    IF Len(bytes) < SignatureLen THEN Panicked("range end index 12 out of range")
    ELSE IF Slice(bytes, 0, SignatureLen) # Signature THEN BadSignature
    ELSE IF Len(bytes) < HeaderLen THEN TooShort
    ELSE Panicked("unwrap: TryFromSliceError")

\* decode_header comparing only the first four bytes of the signature
decode_header_ShortMagic(bytes) ==
    IF Len(bytes) < HeaderLen THEN TooShort
    ELSE IF Slice(bytes, 0, 4) # SubSeq(Signature, 1, 4) THEN BadSignature
    ELSE Panicked("unwrap: TryFromSliceError")

decode_header(bytes) ==
    IF Len(bytes) < HeaderLen THEN TooShort
    ELSE IF Slice(bytes, 0, SignatureLen) # Signature THEN BadSignature
    ELSE LET version == TryIntoArray(Slice(bytes, 12, 14), U16Bytes)
             width   == TryIntoArray(Slice(bytes, 14, 22), U32Bytes)
             height  == TryIntoArray(Slice(bytes, 22, 30), U32Bytes)
         IN  IF ~version.ok THEN Panicked("unwrap: TryFromSliceError")
             ELSE IF ~width.ok THEN Panicked("unwrap: TryFromSliceError")
             ELSE IF ~height.ok THEN Panicked("unwrap: TryFromSliceError")
             ELSE Ok(<<width.array, height.array>>)

(***************************************************************************)
(* usize arithmetic on base-256 digits, least significant digit first.     *)
(***************************************************************************)
Zeros(n) == [i \in 1..n |-> 0]

IsZero(a) == \A i \in 1..Len(a) : a[i] = 0

\* the digits of a small natural number (a Vec's len())
RECURSIVE DigitsOf(_)
DigitsOf(n) == IF n = 0 THEN <<>> ELSE <<n % 256>> \o DigitsOf(n \div 256)

\* a + b + carry
RECURSIVE AddDigits(_, _, _)
AddDigits(a, b, carry) ==
    IF a = <<>> /\ b = <<>>
    THEN IF carry = 0 THEN <<>> ELSE <<carry>>
    ELSE LET x == (IF a = <<>> THEN 0 ELSE Head(a))
                + (IF b = <<>> THEN 0 ELSE Head(b)) + carry
         IN  <<x % 256>> \o AddDigits(IF a = <<>> THEN <<>> ELSE Tail(a),
                                      IF b = <<>> THEN <<>> ELSE Tail(b),
                                      x \div 256)

\* a * d + carry for one digit d
RECURSIVE ScaleDigits(_, _, _)
ScaleDigits(a, d, carry) ==
    IF a = <<>>
    THEN IF carry = 0 THEN <<>> ELSE <<carry>>
    ELSE LET x == Head(a) * d + carry
         IN  <<x % 256>> \o ScaleDigits(Tail(a), d, x \div 256)

\* the full product a * b
RECURSIVE MulDigits(_, _)
MulDigits(a, b) ==
    IF b = <<>> THEN <<>>
    ELSE AddDigits(ScaleDigits(a, Head(b), 0), <<0>> \o MulDigits(a, Tail(b)), 0)

\* a <= b, for digit sequences of any lengths
RECURSIVE LeqDigits(_, _)
LeqDigits(a, b) ==
    IF IsZero(a) THEN TRUE
    ELSE IF IsZero(b) THEN FALSE
    ELSE LET n  == IF Len(a) > Len(b) THEN Len(a) ELSE Len(b)
             pa == a \o Zeros(n - Len(a))
             pb == b \o Zeros(n - Len(b))
         IN  IF pa[n] # pb[n] THEN pa[n] < pb[n]
             ELSE LeqDigits(SubSeq(pa, 1, n - 1), SubSeq(pb, 1, n - 1))

\* the value of a digit sequence known to be small
RECURSIVE NatOf(_)
NatOf(a) == IF a = <<>> THEN 0 ELSE Head(a) + 256 * NatOf(Tail(a))

\* `x as usize` for a u32 x: zero extension to the target's word
AsUsize(x) == x \o Zeros(UsizeBytes - Len(x))

\* usize::checked_mul: None when the product does not fit the word
checked_mul(a, b) ==
    LET p == MulDigits(a, b)
        q == p \o Zeros(2 * UsizeBytes - Len(p))
    IN  IF IsZero(SubSeq(q, UsizeBytes + 1, 2 * UsizeBytes))
        THEN [some |-> TRUE, value |-> SubSeq(q, 1, UsizeBytes)]
        ELSE [some |-> FALSE, value |-> <<>>]

(***************************************************************************)
(* The image crate's constructors called at lib.rs:113 and lib.rs:117.     *)
(***************************************************************************)
\* ImageBuffer::image_buffer_len: CHANNEL_COUNT * width * height, checked
image_buffer_len(width, height) ==
    LET a == checked_mul(AsUsize(DigitsOf(ChannelCount)), AsUsize(width))
    IN  IF ~a.some THEN a ELSE checked_mul(a.value, AsUsize(height))

\* ImageBuffer::<Rgba<u32>, Vec<u32>>::from_raw: Some(buffer over buf) when
\* buf holds at least CHANNEL_COUNT * width * height elements, else None
from_raw(width, height, buf) ==
    LET min_len == image_buffer_len(width, height)
    IN  IF min_len.some /\ LeqDigits(min_len.value, DigitsOf(Len(buf)))
        THEN [some |-> TRUE,
              value |-> [pixel |-> "Rgba<u32>", width |-> width,
                         height |-> height, buf |-> buf]]
        ELSE [some |-> FALSE, value |-> <<>>]

\* DynamicImage::new_rgba8 as evaluated in the closure of lib.rs:117: a fresh
\* zero-filled 8-bit RGBA image (ImageBuffer::new panics when the length
\* overflows)
new_rgba8(width, height) ==
    LET len == image_buffer_len(width, height)
    IN  IF ~len.some THEN Panicked("ImageBuffer::new: buffer length overflows usize")
        ELSE Ok([pixel |-> "Rgba<u8>", width |-> width, height |-> height,
                 buf |-> Zeros(NatOf(len.value))])

(***************************************************************************)
(* load_from_memory, lib.rs:109-118                                        *)
(***************************************************************************)
\* the step handing from_raw the payload units alone
BufferAssembly_PayloadOnly(width, height, units) ==
    LET buf == SubSeq(units, 9, Len(units))
        raw == from_raw(width, height, buf)
    IN  IF ~raw.some THEN InsufficientMemory
        ELSE new_rgba8(width, height)

\* lib.rs:112-117: copy the whole input, build the buffer, return the image
BufferAssembly(width, height, units) ==
    LET buf == [i \in 1..Len(units) |-> units[i]]
        raw == from_raw(width, height, buf)
    IN  IF ~raw.some THEN InsufficientMemory
        ELSE new_rgba8(width, height)

\* load_from_memory reporting every failure as the limit error
load_from_memory_AllLimits(units) ==
    LET header == decode_header(cast_slice(units))
    IN  IF header.kind = "Err" THEN InsufficientMemory
        ELSE IF header.kind # "Ok" THEN header
        ELSE BufferAssembly(header.value[1], header.value[2], units)

load_from_memory(units) ==
    LET header == decode_header(cast_slice(units))
    IN  IF header.kind # "Ok" THEN header
        ELSE BufferAssembly(header.value[1], header.value[2], units)

(***************************************************************************)
(* Inputs.                                                                 *)
(***************************************************************************)
\* the signature with the byte at position p changed
AlteredSignature(p) == [Signature EXCEPT ![p] = (Signature[p] + 1) % 256]

Signatures ==
    {Signature, Zeros(SignatureLen)} \cup {AlteredSignature(p) : p \in 1..SignatureLen}

Versions == {<<1, 0>>, <<0, 2>>}

\* 32-bit dimensions: 0, 1, 2, 3, 5 and 2^31
U32Dims ==
    {<<0, 0, 0, 0>>, <<1, 0, 0, 0>>, <<2, 0, 0, 0>>, <<3, 0, 0, 0>>,
     <<5, 0, 0, 0>>, <<0, 0, 0, 128>>}

\* the upper four bytes of an 8-byte dimension field: zero, or 2^32 added
UpperHalves == {<<0, 0, 0, 0>>, <<1, 0, 0, 0>>}

\* the 8-byte little-endian width and height fields
DimFields == {lo \o hi : lo \in U32Dims, hi \in UpperHalves}

Fills == {0, 255}

\* the fields used with a wrong signature: 2 and 2^31, with either upper half
RejectedFields == {lo \o hi : lo \in {<<2, 0, 0, 0>>, <<0, 0, 0, 128>>}, hi \in UpperHalves}

HeaderBytes(sig, ver, wf, hf) == sig \o ver \o wf \o hf

\* the 30-byte headers: every well-formed one over the fields above, and ones
\* whose signature is wrong
Headers ==
    {HeaderBytes(Signature, ver, wf, hf) :
        ver \in Versions, wf \in DimFields, hf \in DimFields}
    \cup
    {HeaderBytes(sig, ver, wf, hf) :
        sig \in Signatures \ {Signature}, ver \in Versions,
        wf \in RejectedFields, hf \in RejectedFields}

\* the inputs of decode_header: a header and some bytes after it, cut at any
\* length
ByteInputs ==
    {SubSeq(hdr \o [i \in 1..MaxTailBytes |-> fill], 1, n) :
        hdr \in Headers, fill \in Fills, n \in 0..(HeaderLen + MaxTailBytes)}

\* a byte sequence of 4 * n bytes as n units
Units(bytes) ==
    [i \in 1..(Len(bytes) \div U32Bytes) |->
        SubSeq(bytes, U32Bytes * (i - 1) + 1, U32Bytes * i)]

\* the header occupies the first HeaderUnits units; the last two bytes of the
\* eighth unit already lie behind it
HeaderUnits == (HeaderLen + U32Bytes - 1) \div U32Bytes

\* a container: the header, two filler bytes, and n payload units
Container(hdr, fill, n) ==
    Units(hdr \o [i \in 1..(U32Bytes * (HeaderUnits + n) - HeaderLen) |-> fill])

\* the inputs of load_from_memory: containers with any payload, and their
\* prefixes shorter than a header
UnitInputs ==
    {Container(hdr, fill, n) :
        hdr \in Headers, fill \in Fills, n \in 0..MaxPayloadUnits}
    \cup
    {SubSeq(Container(hdr, 0, 0), 1, k) :
        hdr \in Headers, k \in 0..(HeaderUnits - 1)}

\* the buffer-assembly step's inputs: a well-formed container and the
\* dimensions its header declares
AssemblyInputs ==
    {<<w, h, Container(HeaderBytes(Signature, ver, w \o hi, h \o hi), fill, n)>> :
        w \in U32Dims, h \in U32Dims, ver \in Versions, hi \in UpperHalves,
        fill \in Fills, n \in 0..MaxPayloadUnits}

(***************************************************************************)
(* The state machine: one call, from its argument to its outcome.          *)
(***************************************************************************)
Pending == [kind |-> "Pending"]

InitDecodeHeader ==
    /\ op = "decode_header"
    /\ data \in ByteInputs
    /\ dims = <<>>
    /\ result = Pending

InitLoadFromMemory ==
    /\ op = "load_from_memory"
    /\ data \in UnitInputs
    /\ dims = <<>>
    /\ result = Pending

Init == InitDecodeHeader \/ InitLoadFromMemory

DecodeHeader ==
    /\ op = "decode_header"
    /\ result = Pending
    /\ result' = decode_header(data)
    /\ UNCHANGED <<op, data, dims>>

LoadFromMemory ==
    /\ op = "load_from_memory"
    /\ result = Pending
    /\ result' = load_from_memory(data)
    /\ UNCHANGED <<op, data, dims>>

Next == DecodeHeader \/ LoadFromMemory

Spec == Init /\ [][Next]_vars

(***************************************************************************)
(* The buffer-assembly step of load_from_memory (lib.rs:112-117) on its    *)
(* own, applied to a container and the dimensions its header declares.     *)
(***************************************************************************)
InitAssembly ==
    /\ op = "assemble"
    /\ \E in \in AssemblyInputs :
          /\ dims = <<in[1], in[2]>>
          /\ data = in[3]
    /\ result = Pending

Assemble ==
    /\ op = "assemble"
    /\ result = Pending
    /\ result' = BufferAssembly(dims[1], dims[2], data)
    /\ UNCHANGED <<op, data, dims>>

SpecAssembly == InitAssembly /\ [][Assemble]_vars

(***************************************************************************)
(* Vocabulary of the claims.                                               *)
(***************************************************************************)
Returned == result.kind # "Pending"

\* length >= 30 and bytes [0,12) equal to the signature
WellFormed(bytes) ==
    /\ Len(bytes) >= 30
    /\ \A p \in 1..12 : bytes[p] = Signature[p]

\* the lower and the upper four bytes of the 8-byte field at 0-based offset off
LowHalf(bytes, off) == SubSeq(bytes, off + 1, off + 4)
HighHalf(bytes, off) == SubSeq(bytes, off + 5, off + 8)

\* the declared width and height, modulo 2^32
DeclaredWidth(bytes) == LowHalf(bytes, 14)
DeclaredHeight(bytes) == LowHalf(bytes, 22)

\* both fields encode values below 2^32
FitsU32(bytes) == IsZero(HighHalf(bytes, 14)) /\ IsZero(HighHalf(bytes, 22))

\* the number of units after the header's units
PayloadUnits(units) == Len(units) - 8

\* n = w * h and n < w * h, for a count n and 32-bit w, h
EqualsArea(n, w, h) ==
    /\ LeqDigits(DigitsOf(n), MulDigits(w, h))
    /\ LeqDigits(MulDigits(w, h), DigitsOf(n))
BelowArea(n, w, h) == ~LeqDigits(MulDigits(w, h), DigitsOf(n))

(***************************************************************************)
(* C1: for every well-formed header whose width and height fields encode   *)
(* values below 2^32, decode_header returns success with exactly the       *)
(* encoded pair (width, height).                                           *)
(***************************************************************************)
C1_RoundTrip ==
    (op = "decode_header" /\ Returned /\ WellFormed(data) /\ FitsU32(data))
        => /\ result.kind = "Ok"
           /\ result.value = <<DeclaredWidth(data), DeclaredHeight(data)>>

(***************************************************************************)
(* C2: for every input of load_from_memory that is a well-formed header    *)
(* declaring w and h followed by exactly w*h payload units,                *)
(* load_from_memory succeeds with an image of dimensions (w, h).           *)
(***************************************************************************)
C2_ExactPayloadLoads ==
    (/\ op = "load_from_memory" /\ Returned
     /\ WellFormed(cast_slice(data)) /\ FitsU32(cast_slice(data))
     /\ EqualsArea(PayloadUnits(data), DeclaredWidth(cast_slice(data)),
                   DeclaredHeight(cast_slice(data))))
        => /\ result.kind = "Ok"
           /\ result.value.width = DeclaredWidth(cast_slice(data))
           /\ result.value.height = DeclaredHeight(cast_slice(data))

(***************************************************************************)
(* C3: for every input of load_from_memory whose header is well-formed and *)
(* declares w and h, fewer than w*h payload units make load_from_memory    *)
(* fail with the InsufficientMemory limit error.                           *)
(***************************************************************************)
C3_ShortPayloadIsLimitError ==
    (/\ op = "load_from_memory" /\ Returned
     /\ WellFormed(cast_slice(data)) /\ FitsU32(cast_slice(data))
     /\ BelowArea(PayloadUnits(data), DeclaredWidth(cast_slice(data)),
                  DeclaredHeight(cast_slice(data))))
        => result = InsufficientMemory

(***************************************************************************)
(* C4: a call of load_from_memory ends with an image, with TooShort or     *)
(* BadSignature, or with the limit error, and a call of decode_header ends *)
(* with a (width, height) pair, with TooShort or with BadSignature; no     *)
(* call ends in a panic or another error.                                  *)
(***************************************************************************)
C4_OnlyTypedOutcomes ==
    Returned =>
        \/ result.kind = "Ok"
        \/ result.kind = "Err" /\ result \in {TooShort, BadSignature}
        \/ result.kind = "Err" /\ op = "load_from_memory" /\ result = InsufficientMemory

(***************************************************************************)
(* C5: for every byte sequence shorter than 30 bytes, whatever its first   *)
(* bytes are, decode_header fails with TooShort.                           *)
(***************************************************************************)
C5_TooShort ==
    (op = "decode_header" /\ Returned /\ Len(data) < 30) => result = TooShort

\* a 29-byte input that starts with the signature was rejected as too short
C5_Witness ==
    /\ op = "decode_header"
    /\ Len(data) = 29
    /\ \A p \in 1..12 : data[p] = Signature[p]
    /\ result = TooShort

(***************************************************************************)
(* C6: for every byte sequence of at least 30 bytes whose bytes [0,12)     *)
(* differ from the signature in at least one position, decode_header fails *)
(* with BadSignature, whatever the other header bytes are.                 *)
(***************************************************************************)
C6_BadSignature ==
    (/\ op = "decode_header" /\ Returned /\ Len(data) >= 30
     /\ \E p \in 1..12 : data[p] # Signature[p])
        => result = BadSignature

\* an input that differs from the signature in its twelfth byte only was
\* rejected for its signature
C6_Witness ==
    /\ op = "decode_header"
    /\ Len(data) >= 30
    /\ \A p \in 1..11 : data[p] = Signature[p]
    /\ data[12] # Signature[12]
    /\ result = BadSignature

(***************************************************************************)
(* C7: when the header of load_from_memory's input does not decode, the    *)
(* header's error is what load_from_memory returns: TooShort for at most 7 *)
(* units, BadSignature for longer inputs with a wrong signature; the limit *)
(* error is returned only for inputs whose header is well-formed.          *)
(***************************************************************************)
C7_HeaderErrorPropagates ==
    (op = "load_from_memory" /\ Returned) =>
        /\ Len(data) <= 7 => result = TooShort
        /\ (Len(data) >= 8 /\ ~WellFormed(cast_slice(data))) => result = BadSignature
        /\ result = InsufficientMemory => WellFormed(cast_slice(data))

\* a header-only input with a wrong signature, which could not fill the
\* dimensions it declares either, was rejected for its signature
C7_Witness ==
    /\ op = "load_from_memory"
    /\ Len(data) = 8
    /\ ~WellFormed(cast_slice(data))
    /\ result = BadSignature

(***************************************************************************)
(* C8: for every well-formed header whose width field encodes W and height *)
(* field encodes H, values of 2^32 and more included, decode_header        *)
(* returns success with (W mod 2^32, H mod 2^32).                          *)
(***************************************************************************)
C8_WrapsSilently ==
    (op = "decode_header" /\ Returned /\ WellFormed(data) /\ ~FitsU32(data))
        => /\ result.kind = "Ok"
           /\ result.value = <<DeclaredWidth(data), DeclaredHeight(data)>>

SmallDim(w) == w[2] = 0 /\ w[3] = 0 /\ w[4] = 0

\* 4*w*h <= n without overflow, for n < 1024: a zero dimension, or two
\* dimensions below 256 whose product is small enough
FourAreaFits(w, h, n) ==
    \/ IsZero(w)
    \/ IsZero(h)
    \/ SmallDim(w) /\ SmallDim(h) /\ 4 * w[1] * h[1] <= n

C10_AssemblyComparesWholeInput ==
    (op = "assemble" /\ Returned) =>
        /\ Len(data) < 1024
        /\ result = InsufficientMemory <=> ~FourAreaFits(dims[1], dims[2], Len(data))
        /\ result # InsufficientMemory =>
              /\ result.kind = "Ok"
              /\ result.value.width = dims[1]
              /\ result.value.height = dims[2]

\* the eight header units alone filled a 1x2 image
C10_Witness ==
    /\ op = "assemble"
    /\ dims = <<(<<1, 0, 0, 0>>), (<<2, 0, 0, 0>>)>>
    /\ Len(data) = 8
    /\ result.kind = "Ok"
====
